---- MODULE Spec2Model ----
(***************************************************************************)
(* A model of the supabase-orm client library: the Client, the fluent      *)
(* QueryBuilder (configuration calls, terminal operations and the request  *)
(* that execute compiles and dispatches) and the Transaction facade.       *)
(*                                                                         *)
(* Strings are TLA+ strings, built with \o exactly where the code uses     *)
(* fmt.Sprintf / strings.Join.  url.Values and header maps are functions   *)
(* from the keys that are present to their values.                         *)
(***************************************************************************)
EXTENDS Integers, Sequences, FiniteSets, TLC

VARIABLES
    client,   \* the Client built by New: baseURL, apiKey, default headers
    tx,       \* the Transaction returned by Begin (begun = FALSE before)
    qb,       \* the QueryBuilders created so far, in creation order
    hist,     \* for each builder: the constructor that created it, the filter
              \* calls made on it in call order, and the number of terminal
              \* operations run on it
    dest,     \* the caller's result variable, passed by pointer
    calls,    \* number of calls made so far on the client, the transaction
              \* and the builders
    last,     \* the most recent call: operation, arguments and outcome
    opts,     \* the options New was called with, in argument order
    now,      \* the wall clock read by time.Now(), in seconds
    auth,     \* the most recent call on the Auth facade and its outcome
    util      \* the most recent call of a helper function and its result

vars == <<client, tx, qb, hist, dest, calls, last, opts, now, auth, util>>

----------------------------------------------------------------------------
(* Bounds of the exploration *)

MaxBuilders == 2
MaxCalls == 4
MaxItems == 2     \* elements of a collection passed as a filter value
MaxOptions == 2   \* options passed to New
MaxTime == 2      \* seconds the clock advances over a run

----------------------------------------------------------------------------
(* Values of the dynamic type interface{} that callers pass as filter       *)
(* values, and the strings the inputs are drawn from                        *)

IntV(i) == [kind |-> "int", i |-> i]
StrV(s) == [kind |-> "string", s |-> s]

BaseURL == "https://example.supabase.co"
ApiKey == "test-api-key"

TableNames == {"users"}
SelectArgs == {<< >>, <<"id", "name">>}
WhereArgs == {<<"id", "=", IntV(5)>>}
OrWhereArgs == {<<"name", "eq", StrV("bob")>>}
RawConditions == {"age.gt.18"}
OrderArgs == {<<"id", "desc">>, <<"name", "sideways">>}
LimitArgs == {0, 5}
OffsetArgs == {0 - 1, 2}
RangeArgs == {<<0, 9>>, <<10, 19>>}
HeaderArgs ==
    {<<"Prefer", "return=minimal">>, <<"X-Trace", "1">>, <<"Range", "0-4">>}
JoinArgs == {<<"posts", "id", "neq", "user_id">>}
InnerJoinArgs == {<<"comments", "id", "user_id">>}
LeftJoinArgs == {<<"profiles", "id", "user_id">>}
RawArgs == {"", "SELECT 1"}

(* What the caller hands to a terminal operation: an untyped nil or a       *)
(* pointer to its result variable.                                          *)
NilData == [kind |-> "nil"]
PtrData == [kind |-> "ptr"]
CallerData == {NilData, PtrData}

(* What the transport answers: an error, or a status with a body *)
TransportError == [kind |-> "error", status |-> 0, body |-> "", contentRange |-> ""]
HttpResponse(status, body) ==
    [kind |-> "http", status |-> status, body |-> body, contentRange |-> ""]
NoResponse == [kind |-> "none", status |-> 0, body |-> "", contentRange |-> ""]
WellFormedBodies == {"[{\"id\":1}]"}
Responses ==
    { TransportError,
      HttpResponse(200, "[{\"id\":1}]"),
      [HttpResponse(200, "[{\"id\":1}]") EXCEPT !.contentRange = "0-9/42"],
      HttpResponse(200, "<html>"),
      HttpResponse(400, "{\"message\":\"denied\"}") }

----------------------------------------------------------------------------
(* String helpers: fmt's %d and %v verbs, strings.Join *)

Digits == <<"0", "1", "2", "3", "4", "5", "6", "7", "8", "9">>

RECURSIVE FormatNat(_)
FormatNat(n) ==
    IF n < 10 THEN Digits[n + 1]
    ELSE FormatNat(n \div 10) \o Digits[(n % 10) + 1]

FormatInt(n) == IF n < 0 THEN "-" \o FormatNat(0 - n) ELSE FormatNat(n)

Sprintv(value) ==
    CASE value.kind = "int" -> FormatInt(value.i)
      [] value.kind = "string" -> value.s

RECURSIVE StringsJoin(_, _)
StringsJoin(elems, sep) ==
    IF Len(elems) = 0 THEN ""
    ELSE IF Len(elems) = 1 THEN elems[1]
    ELSE elems[1] \o sep \o StringsJoin(Tail(elems), sep)

----------------------------------------------------------------------------
(* Maps: url.Values (key -> list of values) and header maps (key -> value) *)

EmptyMap == [k \in {} |-> ""]

MapSet(m, key, value) ==
    [k \in (DOMAIN m) \cup {key} |-> IF k = key THEN value ELSE m[k]]

ValuesSet(v, key, value) == MapSet(v, key, <<value>>)

ValuesAdd(v, key, value) ==
    MapSet(v, key, IF key \in DOMAIN v THEN Append(v[key], value) ELSE <<value>>)

ValuesGet(v, key) == IF key \in DOMAIN v /\ Len(v[key]) > 0 THEN v[key][1] ELSE ""

----------------------------------------------------------------------------
(* Client *)

(* Options: functions applied to the Client under construction *)
WithTimeout(timeout) == [kind |-> "WithTimeout", timeout |-> timeout]
WithHeaders(headers) == [kind |-> "WithHeaders", headers |-> headers]

(* resty's Client.SetHeaders: every given header is set, replacing a header *)
(* of the same name                                                         *)
SetHeaders(old, headers) ==
    [k \in (DOMAIN old) \cup (DOMAIN headers) |->
        IF k \in DOMAIN headers THEN headers[k] ELSE old[k]]

ApplyOption_keepDefaults(c, option) ==
    IF option.kind = "WithTimeout"
    THEN [c EXCEPT !.timeout = option.timeout]
    ELSE [c EXCEPT !.headers = SetHeaders(option.headers, @)]

ApplyOption(c, option) ==
    IF option.kind = "WithTimeout"
    THEN [c EXCEPT !.timeout = option.timeout]
    ELSE [c EXCEPT !.headers = SetHeaders(@, option.headers)]

RECURSIVE ApplyOptions(_, _)
ApplyOptions(c, options) ==
    IF Len(options) = 0 THEN c
    ELSE ApplyOptions(ApplyOption(c, Head(options)), Tail(options))

New(baseURL, apiKey, options) ==
    ApplyOptions(
        [ baseURL |-> baseURL,
          apiKey  |-> apiKey,
          timeout |-> 0,
          headers |-> MapSet(MapSet(MapSet(EmptyMap,
                         "apikey", apiKey),
                         "Authorization", "Bearer " \o apiKey),
                         "Content-Type", "application/json") ],
        options)

GetBaseURL(c) == c.baseURL

(* A fresh resty request: no header, no query parameter, no body set yet *)
RawRequest(c) ==
    [ sent |-> FALSE, method |-> "", url |-> "",
      headers |-> EmptyMap, query |-> EmptyMap, body |-> [kind |-> "none"] ]

NoRequest == RawRequest(New("", "", << >>))

----------------------------------------------------------------------------
(* QueryBuilder: the struct and its configuration methods.  Each method is  *)
(* an operator from the builder to the builder it leaves behind.            *)

NilRange == [set |-> FALSE, start |-> 0, end |-> 0]

QueryBuilderZero ==
    [ tableName    |-> "",
      method       |-> "",
      selectFields |-> << >>,
      filters      |-> << >>,
      orderFields  |-> << >>,
      limitValue   |-> 0,
      offsetValue  |-> 0,
      rangeValue   |-> NilRange,
      headers      |-> EmptyMap,
      joins        |-> << >>,
      rawQuery     |-> "" ]

Select_append(q, columns) == [q EXCEPT !.selectFields = @ \o columns]

Select(q, columns) == [q EXCEPT !.selectFields = columns]

Where(q, column, operator, value) ==
    [q EXCEPT !.filters = Append(@,
        [column |-> column, operator |-> operator, value |-> value,
         isOr |-> FALSE, isComplex |-> FALSE])]

OrWhere(q, column, operator, value) ==
    [q EXCEPT !.filters = Append(@,
        [column |-> column, operator |-> operator, value |-> value,
         isOr |-> TRUE, isComplex |-> FALSE])]

WhereRaw(q, condition) ==
    [q EXCEPT !.filters = Append(@,
        [column |-> condition, operator |-> "", value |-> [kind |-> "nil"],
         isOr |-> FALSE, isComplex |-> TRUE])]

Order(q, column, direction) ==
    [q EXCEPT !.orderFields = Append(@, [column |-> column, direction |-> direction])]

Limit(q, limit) == [q EXCEPT !.limitValue = limit]

Offset(q, offset) == [q EXCEPT !.offsetValue = offset]

Range(q, start, end) ==
    [q EXCEPT !.rangeValue = [set |-> TRUE, start |-> start, end |-> end]]

Header(q, key, value) == [q EXCEPT !.headers = MapSet(@, key, value)]

Join(q, foreignTable, localColumn, operator, foreignColumn) ==
    [q EXCEPT !.joins = Append(@,
        [foreignTable |-> foreignTable, localColumn |-> localColumn,
         operator |-> operator, foreignColumn |-> foreignColumn])]

InnerJoin(q, foreignTable, localColumn, foreignColumn) ==
    Join(q, foreignTable, localColumn, "eq", foreignColumn)

LeftJoin_plain(q, foreignTable, localColumn, foreignColumn) ==
    Join(q, foreignTable, localColumn, "eq", foreignColumn)

LeftJoin(q, foreignTable, localColumn, foreignColumn) ==
    Header(Join(q, foreignTable, localColumn, "eq", foreignColumn),
           "Prefer", "missing=null")

Raw(q, query) == [q EXCEPT !.rawQuery = query]

(* Client.Table and Transaction.Table *)
Table_noMethod(c, tableName) == [QueryBuilderZero EXCEPT !.tableName = tableName]

Table(c, tableName) ==
    [QueryBuilderZero EXCEPT !.tableName = tableName, !.method = "GET"]

TransactionTable(t, tableName) ==
    Header([QueryBuilderZero EXCEPT !.tableName = tableName, !.method = "GET"],
           "Prefer", "tx=commit")

----------------------------------------------------------------------------
(* QueryBuilder.execute: the compilation of the builder into a request      *)

(* one join as an embedded resource: the foreign table with all its columns *)
JoinSelect(j) == j.foreignTable \o "(" \o "*" \o ")"

(* select parameter: the selected columns, then one embedded resource per join *)
SelectParams_joinsOnly(q, queryParams) ==
    LET joinSelects == [i \in 1..Len(q.joins) |-> JoinSelect(q.joins[i])]
    IN  IF Len(q.joins) > 0
        THEN ValuesSet(queryParams, "select", StringsJoin(joinSelects, ","))
        ELSE IF Len(q.selectFields) > 0
        THEN ValuesSet(queryParams, "select", StringsJoin(q.selectFields, ","))
        ELSE queryParams

SelectParams(q, queryParams) ==
    LET withFields ==
            IF Len(q.selectFields) > 0
            THEN ValuesSet(queryParams, "select", StringsJoin(q.selectFields, ","))
            ELSE queryParams
        joinSelects == [i \in 1..Len(q.joins) |-> JoinSelect(q.joins[i])]
    IN  IF Len(q.joins) > 0
        THEN IF Len(q.selectFields) > 0
             THEN ValuesSet(withFields, "select",
                      ValuesGet(withFields, "select") \o "," \o StringsJoin(joinSelects, ","))
             ELSE ValuesSet(withFields, "select", "*," \o StringsJoin(joinSelects, ","))
        ELSE withFields

(* one filter as the value of an `and` parameter *)
FilterCondition_unwrapped(f) ==
    IF f.isComplex THEN f.column
    ELSE f.column \o "." \o f.operator \o "." \o Sprintv(f.value)

FilterCondition(f) ==
    IF f.isComplex THEN f.column
    ELSE IF f.isOr
         THEN "or(" \o f.column \o "." \o f.operator \o "." \o Sprintv(f.value) \o ")"
         ELSE f.column \o "." \o f.operator \o "." \o Sprintv(f.value)

RECURSIVE FilterParams(_, _)
FilterParams(filters, queryParams) ==
    IF Len(filters) = 0 THEN queryParams
    ELSE FilterParams(Tail(filters),
                      ValuesAdd(queryParams, "and", FilterCondition(Head(filters))))

OrderParams_lastOnly(q, queryParams) ==
    IF Len(q.orderFields) > 0
    THEN ValuesSet(queryParams, "order",
             q.orderFields[Len(q.orderFields)].column \o "." \o
             q.orderFields[Len(q.orderFields)].direction)
    ELSE queryParams

OrderParams(q, queryParams) ==
    IF Len(q.orderFields) > 0
    THEN ValuesSet(queryParams, "order",
             StringsJoin([i \in 1..Len(q.orderFields) |->
                 q.orderFields[i].column \o "." \o q.orderFields[i].direction], ","))
    ELSE queryParams

LimitOffsetParams_nonzero(q, queryParams) ==
    LET withLimit ==
            IF q.limitValue # 0
            THEN ValuesSet(queryParams, "limit", FormatInt(q.limitValue))
            ELSE queryParams
    IN  IF q.offsetValue # 0
        THEN ValuesSet(withLimit, "offset", FormatInt(q.offsetValue))
        ELSE withLimit

LimitOffsetParams(q, queryParams) ==
    LET withLimit ==
            IF q.limitValue > 0
            THEN ValuesSet(queryParams, "limit", FormatInt(q.limitValue))
            ELSE queryParams
    IN  IF q.offsetValue > 0
        THEN ValuesSet(withLimit, "offset", FormatInt(q.offsetValue))
        ELSE withLimit

BuildQueryParams(q) ==
    LimitOffsetParams(q,
        OrderParams(q,
            FilterParams(q.filters,
                SelectParams(q, EmptyMap))))

CustomHeaders_normalOnly(q, req) ==
    IF q.rawQuery # "" THEN req
    ELSE [req EXCEPT !.headers = [k \in (DOMAIN @) \cup (DOMAIN q.headers) |->
                                IF k \in DOMAIN q.headers THEN q.headers[k] ELSE @[k]]]

(* the custom headers of the builder, set on the request *)
CustomHeaders(q, req) ==
    [req EXCEPT !.headers = [k \in (DOMAIN @) \cup (DOMAIN q.headers) |->
                                IF k \in DOMAIN q.headers THEN q.headers[k] ELSE @[k]]]

RangeHeader_whenNoLimit(q, req) ==
    IF q.rangeValue.set /\ q.limitValue = 0
    THEN [req EXCEPT !.headers = MapSet(@, "Range",
              FormatInt(q.rangeValue.start) \o "-" \o FormatInt(q.rangeValue.end))]
    ELSE req

RangeHeader(q, req) ==
    IF q.rangeValue.set
    THEN [req EXCEPT !.headers = MapSet(@, "Range",
              FormatInt(q.rangeValue.start) \o "-" \o FormatInt(q.rangeValue.end))]
    ELSE req

(* the body of the RPC call: struct sqlRequest, marshalled as {"query": ...} *)
SqlRequest(query) == [kind |-> "sqlRequest", query |-> query]

----------------------------------------------------------------------------
(* Errors and response decoding *)

NilError == [kind |-> "nil", text |-> ""]
TransportFailure == [kind |-> "transport", text |-> "connection refused"]
ApiError_statusOnly(body) == [kind |-> "api", text |-> "API error"]

ApiError(body) == [kind |-> "api", text |-> "API error: " \o body]
UnsupportedMethod(method) ==
    [kind |-> "unsupported_method", text |-> "unsupported HTTP method: " \o method]
SyntaxError == [kind |-> "json_syntax", text |-> "invalid character"]
InvalidUnmarshalError == [kind |-> "json_invalid_unmarshal", text |-> "json: Unmarshal(non-pointer)"]

(* resty's Response.IsError *)
IsError(resp) == resp.status > 399

(* Count's local `var result json.RawMessage`, passed as &result *)
InternalData == [kind |-> "internal"]

(* json.Unmarshal(body, v): the text is validated first, then v must be a   *)
(* non-nil pointer; only then is anything stored through it.                *)
Unmarshal(body, v) ==
    IF body \notin WellFormedBodies THEN [err |-> SyntaxError, wrote |-> FALSE]
    ELSE IF v.kind \in {"ptr", "internal"} THEN [err |-> NilError, wrote |-> TRUE]
    ELSE [err |-> InvalidUnmarshalError, wrote |-> FALSE]

----------------------------------------------------------------------------
(* execute: returns the builder it leaves behind, the request it issued,    *)
(* the value handed to the decoder and the error it returns.                *)

Outcome(q, req, resp, err, unmarshalled, target, wrote) ==
    [ q |-> q, req |-> req, resp |-> resp, err |-> err,
      attempts |-> IF req.sent THEN 1 ELSE 0,
      unmarshalled |-> unmarshalled, target |-> target, wrote |-> wrote,
      count |-> 0 ]

(* raw-SQL mode forces the method of the builder *)
RpcMethod_kept(q) == q

RpcMethod(q) == [q EXCEPT !.method = "POST"]

(* the methods whose response is decoded into data *)
ReturnsData_anyBody(method, data) ==
    method \in {"GET", "POST", "PATCH"} /\ data.kind # "nil"

ReturnsData(method, data) ==
    \/ method = "GET" /\ data.kind # "nil"
    \/ method = "POST" /\ data.kind # "nil"

execute(c, q0, data0, resp) ==
    LET raw == q0.rawQuery # ""
        endpoint == IF raw
                    THEN GetBaseURL(c) \o "/rest/v1/rpc/execute_sql"
                    ELSE GetBaseURL(c) \o "/rest/v1/" \o q0.tableName
        q == IF raw THEN RpcMethod(q0) ELSE q0
        data == IF raw THEN SqlRequest(q0.rawQuery) ELSE data0
        withHeaders == CustomHeaders(q, RawRequest(c))
        req == IF q.rawQuery = ""
               THEN [RangeHeader(q, withHeaders) EXCEPT !.query = BuildQueryParams(q)]
               ELSE withHeaders
        issued == [req EXCEPT !.sent = TRUE, !.method = q.method, !.url = endpoint,
                              !.body = IF q.method \in {"POST", "PATCH"}
                                       THEN data ELSE @]
    IN  IF q.method \notin {"GET", "POST", "PATCH", "DELETE"}
        THEN Outcome(q, req, NoResponse, UnsupportedMethod(q.method), FALSE, data, FALSE)
        ELSE IF resp.kind = "error"
        THEN Outcome(q, issued, resp, TransportFailure, FALSE, data, FALSE)
        ELSE IF IsError(resp)
        THEN Outcome(q, issued, resp, ApiError(resp.body), FALSE, data, FALSE)
        ELSE IF ReturnsData(q.method, data)
        THEN LET u == Unmarshal(resp.body, data)
             IN  Outcome(q, issued, resp, u.err, TRUE, data, u.wrote)
        ELSE Outcome(q, issued, resp, NilError, FALSE, data, FALSE)

(* Terminal operations *)
Get_reset(c, q, result, resp) == execute(c, [q EXCEPT !.method = "GET"], result, resp)

Get(c, q, result, resp) == execute(c, q, result, resp)

First_keepLimit(c, q, result, resp) ==
    execute(c, IF q.limitValue > 0 THEN q ELSE Limit(q, 1), result, resp)

First(c, q, result, resp) == execute(c, Limit(q, 1), result, resp)

Insert(c, q, data, resp) == execute(c, [q EXCEPT !.method = "POST"], data, resp)

Update_put(c, q, data, resp) == execute(c, [q EXCEPT !.method = "PUT"], data, resp)

Update(c, q, data, resp) == execute(c, [q EXCEPT !.method = "PATCH"], data, resp)

Delete(c, q, resp) == execute(c, [q EXCEPT !.method = "DELETE"], NilData, resp)

Count_parsed(c, q, resp) ==
    [execute(c, Header(q, "Prefer", "count=exact"), InternalData, resp)
        EXCEPT !.count = IF resp.contentRange = "" THEN 0 ELSE 42]

Count(c, q, resp) ==
    [execute(c, Header(q, "Prefer", "count=exact"), InternalData, resp)
        EXCEPT !.count = 0]

(* Transaction *)
Begin(c) == [begun |-> TRUE]

Commit(t) == NilError

Rollback_silent(t) == NilError

Rollback(t) ==
    [kind |-> "unsupported",
     text |-> "rollback not supported in the current Supabase REST API"]

----------------------------------------------------------------------------
(* Helper functions: filter values and filter conditions *)

BoolV(b) == [kind |-> "bool", b |-> b]
UintV(u) == [kind |-> "uint", u |-> u]
(* a slice or array: the kind of its element type and its elements *)
SliceV(elem, items) == [kind |-> "slice", elem |-> elem, items |-> items]

FormatBool(b) == IF b THEN "true" ELSE "false"

FormatUint(u) == FormatNat(u)

RECURSIVE FormatFilterValue_flat(_)
FormatFilterValue_flat(value) ==
    CASE value.kind = "string" -> "\"" \o value.s \o "\""
      [] value.kind = "bool" -> FormatBool(value.b)
      [] value.kind = "int" -> FormatInt(value.i)
      [] value.kind = "uint" -> FormatUint(value.u)
      [] value.kind = "slice" ->
            StringsJoin([i \in 1..Len(value.items) |->
                            FormatFilterValue_flat(value.items[i])], ",")

RECURSIVE FormatFilterValue(_)
FormatFilterValue(value) ==
    CASE value.kind = "string" -> "\"" \o value.s \o "\""
      [] value.kind = "bool" -> FormatBool(value.b)
      [] value.kind = "int" -> FormatInt(value.i)
      [] value.kind = "uint" -> FormatUint(value.u)
      [] value.kind = "slice" ->
            IF value.elem = "string"
            THEN "{" \o StringsJoin([i \in 1..Len(value.items) |->
                            "\"" \o value.items[i].s \o "\""], ",") \o "}"
            ELSE "{" \o StringsJoin([i \in 1..Len(value.items) |->
                            FormatFilterValue(value.items[i])], ",") \o "}"

BuildFilterCondition_verbatim(column, operator, value) ==
    column \o "=" \o operator \o "." \o FormatFilterValue(value)

BuildFilterCondition(column, operator, value) ==
    LET formattedValue == FormatFilterValue(value)
    IN  CASE operator \in {"eq", "="} -> column \o "=eq." \o formattedValue
          [] operator \in {"neq", "!=", "<>"} -> column \o "=neq." \o formattedValue
          [] operator \in {"gt", ">"} -> column \o "=gt." \o formattedValue
          [] operator \in {"gte", ">="} -> column \o "=gte." \o formattedValue
          [] operator \in {"lt", "<"} -> column \o "=lt." \o formattedValue
          [] operator \in {"lte", "<="} -> column \o "=lte." \o formattedValue
          [] operator = "like" -> column \o "=like." \o formattedValue
          [] operator = "ilike" -> column \o "=ilike." \o formattedValue
          [] operator = "in" -> column \o "=in." \o formattedValue
          [] operator = "is" -> column \o "=is." \o formattedValue
          [] OTHER -> column \o "=" \o operator \o "." \o formattedValue

----------------------------------------------------------------------------
(* Auth facade *)

(* time.Time: the zero value, or a reading of the clock in seconds *)
ZeroTime == [isZero |-> TRUE, sec |-> 0]
Time(sec) == [isZero |-> FALSE, sec |-> sec]
(* t.Add(time.Second * time.Duration(seconds)) *)
TimeAdd(t, seconds) == Time(t.sec + seconds)

(* What the auth server answers: a transport error, or a status with the    *)
(* body text and the JSON members that text carries.                        *)
NoJson == [expires_in |-> 0, expires_at |-> 0, access_token |-> "", id |-> ""]
AuthTransportError ==
    [kind |-> "error", status |-> 0, body |-> "", json |-> NoJson]
AuthHttpResponse(status, body, json) ==
    [kind |-> "http", status |-> status, body |-> body, json |-> json]
NoAuthResponse == [kind |-> "none", status |-> 0, body |-> "", json |-> NoJson]

NoAuthRequest ==
    [ sent |-> FALSE, method |-> "", url |-> "", headers |-> EmptyMap,
      wire |-> EmptyMap, body |-> "" ]

(* a.client.httpClient.R() with the request headers and the body set, sent  *)
(* with the given method: on the wire a request header replaces the client  *)
(* header of the same name.                                                 *)
AuthRequest(c, method, endpoint, headers, body) ==
    [ sent |-> TRUE, method |-> method, url |-> endpoint, headers |-> headers,
      wire |-> SetHeaders(c.headers, headers), body |-> body ]

AuthError_noBody(body) == [kind |-> "auth", text |-> "auth error"]

AuthError(body) == [kind |-> "auth", text |-> "auth error: " \o body]

NilPayload == [kind |-> "nil"]

(* SetResult(&AuthResponse{}): the members with a json tag are decoded;     *)
(* ExpiresAt is tagged json:"-" and keeps its zero value.                   *)
DecodeAuthResponse(json) ==
    [ kind |-> "AuthResponse", AccessToken |-> json.access_token,
      ExpiresIn |-> json.expires_in, ExpiresAt |-> ZeroTime ]

(* SetResult(&User{}) *)
DecodeUser(json) == [kind |-> "User", ID |-> json.id]

SetExpiresAt_kept(authResp, t) == authResp

SetExpiresAt(authResp, t) ==
    [authResp EXCEPT !.ExpiresAt = TimeAdd(Time(t), authResp.ExpiresIn)]

AuthOutcome(req, resp, ret, err) ==
    [ req |-> req, resp |-> resp, ret |-> ret, err |-> err,
      attempts |-> IF req.sent THEN 1 ELSE 0 ]

(* the three shapes the nine operations share after the request is sent *)
ReturnsError(req, resp) ==
    IF resp.kind = "error" THEN AuthOutcome(req, resp, NilPayload, TransportFailure)
    ELSE IF IsError(resp) THEN AuthOutcome(req, resp, NilPayload, AuthError(resp.body))
    ELSE AuthOutcome(req, resp, NilPayload, NilError)

ReturnsAuthResponse(req, resp, t) ==
    IF resp.kind = "error" THEN AuthOutcome(req, resp, NilPayload, TransportFailure)
    ELSE IF IsError(resp) THEN AuthOutcome(req, resp, NilPayload, AuthError(resp.body))
    ELSE AuthOutcome(req, resp, SetExpiresAt(DecodeAuthResponse(resp.json), t), NilError)

ReturnsUser(req, resp) ==
    IF resp.kind = "error" THEN AuthOutcome(req, resp, NilPayload, TransportFailure)
    ELSE IF IsError(resp) THEN AuthOutcome(req, resp, NilPayload, AuthError(resp.body))
    ELSE AuthOutcome(req, resp, DecodeUser(resp.json), NilError)

ContentTypeJson == MapSet(EmptyMap, "Content-Type", "application/json")
BearerToken(token) == MapSet(EmptyMap, "Authorization", "Bearer " \o token)

(* t is the reading of time.Now() after the response has arrived *)
SignUp(c, req, resp, t) ==
    ReturnsAuthResponse(
        AuthRequest(c, "POST", c.baseURL \o "/auth/v1/signup", ContentTypeJson, req),
        resp, t)

SignInWithPassword(c, req, resp, t) ==
    ReturnsAuthResponse(
        AuthRequest(c, "POST", c.baseURL \o "/auth/v1/token?grant_type=password",
                    ContentTypeJson, req),
        resp, t)

SignInWithOTP(c, req, resp) ==
    ReturnsError(
        AuthRequest(c, "POST", c.baseURL \o "/auth/v1/otp", ContentTypeJson, req),
        resp)

Verify_errorOnly(c, req, resp, t) ==
    ReturnsError(
        AuthRequest(c, "POST", c.baseURL \o "/auth/v1/verify", ContentTypeJson, req),
        resp)

Verify(c, req, resp, t) ==
    ReturnsAuthResponse(
        AuthRequest(c, "POST", c.baseURL \o "/auth/v1/verify", ContentTypeJson, req),
        resp, t)

ResetPassword(c, req, resp) ==
    ReturnsError(
        AuthRequest(c, "POST", c.baseURL \o "/auth/v1/recover", ContentTypeJson, req),
        resp)

UpdatePassword_post(c, req, token, resp) ==
    ReturnsError(
        AuthRequest(c, "POST", c.baseURL \o "/auth/v1/user",
                    MapSet(ContentTypeJson, "Authorization", "Bearer " \o token), req),
        resp)

UpdatePassword(c, req, token, resp) ==
    ReturnsError(
        AuthRequest(c, "PUT", c.baseURL \o "/auth/v1/user",
                    MapSet(ContentTypeJson, "Authorization", "Bearer " \o token), req),
        resp)

RefreshToken(c, req, resp, t) ==
    ReturnsAuthResponse(
        AuthRequest(c, "POST", c.baseURL \o "/auth/v1/token?grant_type=refresh_token",
                    ContentTypeJson, req),
        resp, t)

GetUser(c, token, resp) ==
    ReturnsUser(
        AuthRequest(c, "GET", c.baseURL \o "/auth/v1/user", BearerToken(token), ""),
        resp)

SignOut(c, token, resp) ==
    ReturnsError(
        AuthRequest(c, "POST", c.baseURL \o "/auth/v1/logout", BearerToken(token), ""),
        resp)

----------------------------------------------------------------------------
(* The state machine: one action per exported call *)

NoAuthCall ==
    [ op |-> "none", body |-> "", token |-> "", req |-> NoAuthRequest, resp |-> NoAuthResponse,
      ret |-> NilPayload, err |-> NilError, attempts |-> 0 ]

NoUtilCall ==
    [fn |-> "none", column |-> "", operator |-> "", value |-> [kind |-> "nil"], out |-> ""]

(* the state New(BaseURL, ApiKey, options...) leaves behind *)
Constructed(options) ==
    /\ client = New(BaseURL, ApiKey, options)
    /\ opts = options
    /\ tx = [begun |-> FALSE]
    /\ qb = << >>
    /\ hist = << >>
    /\ dest = ""
    /\ calls = 0
    /\ last = [ op |-> "New", b |-> 0, args |-> << >>, ret |-> 0,
                before |-> QueryBuilderZero,
                req |-> NoRequest, resp |-> NoResponse, err |-> NilError,
                attempts |-> 0,
              unmarshalled |-> FALSE, target |-> NilData, wrote |-> FALSE,
                count |-> 0 ]
    /\ now = 0
    /\ auth = NoAuthCall
    /\ util = NoUtilCall

Init == Constructed(<< >>)

Builders == DOMAIN qb

(* the builder a call on b finds; the zero builder for a call that creates b *)
Before(b) == IF b \in DOMAIN qb THEN qb[b] ELSE QueryBuilderZero

(* a call that returns no request outcome *)
Returned(op, b, args, ret, err) ==
    last' = [ op |-> op, b |-> b, args |-> args, ret |-> ret,
              before |-> Before(b),
              req |-> NoRequest, resp |-> NoResponse, err |-> err,
              attempts |-> 0,
              unmarshalled |-> FALSE, target |-> NilData, wrote |-> FALSE,
              count |-> 0 ]

Created(op, name, q) ==
    /\ Len(qb) < MaxBuilders
    /\ calls < MaxCalls
    /\ qb' = Append(qb, q)
    /\ hist' = Append(hist, [ctor |-> op, filterCalls |-> << >>, execs |-> 0,
                                methodLeft |-> ""])
    /\ calls' = calls + 1
    /\ Returned(op, Len(qb) + 1, <<name>>, Len(qb) + 1, NilError)
    /\ UNCHANGED <<client, tx, dest, opts, now, auth, util>>

Configured_aliased(op, b, args, q) ==
    /\ calls < MaxCalls
    /\ qb' = [i \in DOMAIN qb |-> q]
    /\ calls' = calls + 1
    /\ Returned(op, b, args, b, NilError)
    /\ UNCHANGED <<client, tx, dest, opts, now, auth, util>>

(* a configuration call on builder b: it leaves q behind and returns b *)
Configured(op, b, args, q) ==
    /\ calls < MaxCalls
    /\ qb' = [qb EXCEPT ![b] = q]
    /\ calls' = calls + 1
    /\ Returned(op, b, args, b, NilError)
    /\ UNCHANGED <<client, tx, dest, opts, now, auth, util>>

(* the method the most recent Insert, Update, Delete or raw-SQL execution    *)
(* assigned to q.method: prev unless the terminal call op on q is one of    *)
(* them                                                                     *)
MethodLeft(op, q, prev) ==
    IF q.rawQuery # "" THEN "POST"
    ELSE CASE op = "Insert" -> "POST"
           [] op = "Update" -> "PATCH"
           [] op = "Delete" -> "DELETE"
           [] OTHER -> prev

(* a terminal call on builder b with outcome out *)
Executed(op, b, args, out) ==
    /\ calls < MaxCalls
    /\ qb' = [qb EXCEPT ![b] = out.q]
    /\ dest' = IF out.wrote /\ out.target.kind = "ptr" THEN out.resp.body ELSE dest
    /\ calls' = calls + 1
    /\ last' = [ op |-> op, b |-> b, args |-> args, ret |-> 0,
                 before |-> Before(b),
                 req |-> out.req, resp |-> out.resp, err |-> out.err,
                 attempts |-> out.attempts,
                 unmarshalled |-> out.unmarshalled, target |-> out.target,
                 wrote |-> out.wrote, count |-> out.count ]
    /\ hist' = [hist EXCEPT ![b].execs = @ + 1,
                             ![b].methodLeft = MethodLeft(op, qb[b], @)]
    /\ UNCHANGED <<client, tx, opts, now, auth, util>>

FilterCall(op, b, column, operator, value) ==
    hist' = [hist EXCEPT ![b].filterCalls = Append(@,
                [op |-> op, column |-> column, operator |-> operator, value |-> value])]

CallTable ==
    \E name \in TableNames : Created("Client.Table", name, Table(client, name))

CallBegin ==
    /\ calls < MaxCalls
    /\ tx' = Begin(client)
    /\ calls' = calls + 1
    /\ Returned("Begin", 0, << >>, 0, NilError)
    /\ UNCHANGED <<client, qb, hist, dest, opts, now, auth, util>>

CallTransactionTable ==
    /\ tx.begun
    /\ \E name \in TableNames :
           Created("Transaction.Table", name, TransactionTable(tx, name))

CallCommit ==
    /\ tx.begun
    /\ calls < MaxCalls
    /\ calls' = calls + 1
    /\ Returned("Commit", 0, << >>, 0, Commit(tx))
    /\ UNCHANGED <<client, tx, qb, hist, dest, opts, now, auth, util>>

CallRollback ==
    /\ tx.begun
    /\ calls < MaxCalls
    /\ calls' = calls + 1
    /\ Returned("Rollback", 0, << >>, 0, Rollback(tx))
    /\ UNCHANGED <<client, tx, qb, hist, dest, opts, now, auth, util>>

CallSelect ==
    \E b \in Builders, columns \in SelectArgs :
        /\ Configured("Select", b, <<columns>>, Select(qb[b], columns))
        /\ UNCHANGED hist

CallWhere ==
    \E b \in Builders, a \in WhereArgs :
        /\ Configured("Where", b, a, Where(qb[b], a[1], a[2], a[3]))
        /\ FilterCall("Where", b, a[1], a[2], a[3])

CallOrWhere ==
    \E b \in Builders, a \in OrWhereArgs :
        /\ Configured("OrWhere", b, a, OrWhere(qb[b], a[1], a[2], a[3]))
        /\ FilterCall("OrWhere", b, a[1], a[2], a[3])

CallWhereRaw ==
    \E b \in Builders, condition \in RawConditions :
        /\ Configured("WhereRaw", b, <<condition>>, WhereRaw(qb[b], condition))
        /\ FilterCall("WhereRaw", b, condition, "", [kind |-> "nil"])

CallOrder ==
    \E b \in Builders, a \in OrderArgs :
        /\ Configured("Order", b, a, Order(qb[b], a[1], a[2]))
        /\ UNCHANGED hist

CallLimit ==
    \E b \in Builders, limit \in LimitArgs :
        /\ Configured("Limit", b, <<limit>>, Limit(qb[b], limit))
        /\ UNCHANGED hist

CallOffset ==
    \E b \in Builders, offset \in OffsetArgs :
        /\ Configured("Offset", b, <<offset>>, Offset(qb[b], offset))
        /\ UNCHANGED hist

CallRange ==
    \E b \in Builders, a \in RangeArgs :
        /\ Configured("Range", b, a, Range(qb[b], a[1], a[2]))
        /\ UNCHANGED hist

CallHeader ==
    \E b \in Builders, a \in HeaderArgs :
        /\ Configured("Header", b, a, Header(qb[b], a[1], a[2]))
        /\ UNCHANGED hist

CallJoin ==
    \E b \in Builders, a \in JoinArgs :
        /\ Configured("Join", b, a, Join(qb[b], a[1], a[2], a[3], a[4]))
        /\ UNCHANGED hist

CallInnerJoin ==
    \E b \in Builders, a \in InnerJoinArgs :
        /\ Configured("InnerJoin", b, a, InnerJoin(qb[b], a[1], a[2], a[3]))
        /\ UNCHANGED hist

CallLeftJoin ==
    \E b \in Builders, a \in LeftJoinArgs :
        /\ Configured("LeftJoin", b, a, LeftJoin(qb[b], a[1], a[2], a[3]))
        /\ UNCHANGED hist

CallRaw ==
    \E b \in Builders, query \in RawArgs :
        /\ Configured("Raw", b, <<query>>, Raw(qb[b], query))
        /\ UNCHANGED hist

CallGet ==
    \E b \in Builders, result \in CallerData, resp \in Responses :
        Executed("Get", b, <<result>>, Get(client, qb[b], result, resp))

CallFirst ==
    \E b \in Builders, result \in CallerData, resp \in Responses :
        Executed("First", b, <<result>>, First(client, qb[b], result, resp))

CallInsert ==
    \E b \in Builders, data \in CallerData, resp \in Responses :
        Executed("Insert", b, <<data>>, Insert(client, qb[b], data, resp))

CallUpdate ==
    \E b \in Builders, data \in CallerData, resp \in Responses :
        Executed("Update", b, <<data>>, Update(client, qb[b], data, resp))

CallDelete ==
    \E b \in Builders, resp \in Responses :
        Executed("Delete", b, <<NilData>>, Delete(client, qb[b], resp))

CallCount ==
    \E b \in Builders, resp \in Responses :
        Executed("Count", b, <<NilData>>, Count(client, qb[b], resp))

Next ==
    \/ CallTable
    \/ CallBegin
    \/ CallTransactionTable
    \/ CallCommit
    \/ CallRollback
    \/ CallSelect
    \/ CallWhere
    \/ CallOrWhere
    \/ CallWhereRaw
    \/ CallOrder
    \/ CallLimit
    \/ CallOffset
    \/ CallRange
    \/ CallHeader
    \/ CallJoin
    \/ CallInnerJoin
    \/ CallLeftJoin
    \/ CallRaw
    \/ CallGet
    \/ CallFirst
    \/ CallInsert
    \/ CallUpdate
    \/ CallDelete
    \/ CallCount

Spec == Init /\ [][Next]_vars

----------------------------------------------------------------------------
(* The helper functions, applied to inputs drawn from bounded sets *)

SeqsUpTo(S, n) == UNION { [1..k -> S] : k \in 0..n }

FilterScalars ==
    { StrV("bob"), StrV(""), BoolV(TRUE), BoolV(FALSE),
      IntV(5), IntV(0), IntV(0 - 12), UintV(7) }
StringSlices ==
    { SliceV("string", items) : items \in SeqsUpTo({StrV("a"), StrV("b")}, MaxItems) }
IntSlices ==
    { SliceV("int", items) : items \in SeqsUpTo({IntV(1), IntV(0 - 2)}, MaxItems) }
(* scalars, []string, []int, [][]int and []interface{} *)
FilterValues ==
    FilterScalars \cup StringSlices \cup IntSlices
        \cup { SliceV("slice", items) : items \in SeqsUpTo(IntSlices, MaxItems) }
        \cup { SliceV("interface", items) :
                  items \in SeqsUpTo({StrV("a"), IntV(5), BoolV(TRUE)}, MaxItems) }

FilterColumns == {"id", "name"}
FilterOperators ==
    { "eq", "=", "neq", "!=", "<>", "gt", ">", "gte", ">=", "lt", "<", "lte", "<=",
      "like", "ilike", "in", "is", "cs", "fts" }

(* the helpers keep no state, so a call does not depend on an earlier one:  *)
(* each behaviour makes one call                                            *)
UtilCalled(fn, column, operator, value, out) ==
    /\ util = NoUtilCall
    /\ util' = [fn |-> fn, column |-> column, operator |-> operator,
                value |-> value, out |-> out]
    /\ UNCHANGED <<client, tx, qb, hist, dest, calls, last, opts, now, auth>>

CallFormatFilterValue ==
    \E value \in FilterValues :
        UtilCalled("FormatFilterValue", "", "", value, FormatFilterValue(value))

CallBuildFilterCondition ==
    \E column \in FilterColumns, operator \in FilterOperators,
       value \in FilterScalars \cup StringSlices :
        UtilCalled("BuildFilterCondition", column, operator, value,
                   BuildFilterCondition(column, operator, value))

NextUtil ==
    \/ CallFormatFilterValue
    \/ CallBuildFilterCondition

SpecUtil == Init /\ [][NextUtil]_vars

----------------------------------------------------------------------------
(* The Auth facade of a client constructed with options *)

Options ==
    { WithTimeout(5), WithTimeout(30),
      WithHeaders(MapSet(EmptyMap, "X-Custom-Header", "custom-value")),
      WithHeaders(MapSet(EmptyMap, "Authorization", "Bearer service-role")),
      WithHeaders(MapSet(MapSet(EmptyMap, "X-Custom-Header", "second"),
                         "apikey", "other-key")) }
OptionLists == SeqsUpTo(Options, MaxOptions)

AuthBodies == {"{\"email\":\"test@example.com\"}"}
Tokens == {"test-token"}
AuthResponses ==
    { AuthTransportError,
      AuthHttpResponse(200, "{\"expires_in\":3600,\"expires_at\":7}",
          [expires_in |-> 3600, expires_at |-> 7, access_token |-> "jwt", id |-> "u1"]),
      AuthHttpResponse(200, "{\"expires_in\":0,\"expires_at\":7}",
          [expires_in |-> 0, expires_at |-> 7, access_token |-> "jwt", id |-> "u1"]),
      AuthHttpResponse(200, "", NoJson),
      AuthHttpResponse(400, "{\"msg\":\"invalid\"}", NoJson) }

(* the clock readings at which a call that starts now can complete *)
Completions == { t \in now..(now + 1) : t <= MaxTime }

AuthCalled(op, body, token, t, out) ==
    /\ auth' = [ op |-> op, body |-> body, token |-> token,
                 req |-> out.req, resp |-> out.resp, ret |-> out.ret,
                 err |-> out.err, attempts |-> out.attempts ]
    /\ now' = t
    /\ UNCHANGED <<client, tx, qb, hist, dest, calls, last, opts, util>>

CallSignUp ==
    \E req \in AuthBodies, resp \in AuthResponses, t \in Completions :
        AuthCalled("SignUp", req, "", t, SignUp(client, req, resp, t))

CallSignInWithPassword ==
    \E req \in AuthBodies, resp \in AuthResponses, t \in Completions :
        AuthCalled("SignInWithPassword", req, "", t,
                   SignInWithPassword(client, req, resp, t))

CallSignInWithOTP ==
    \E req \in AuthBodies, resp \in AuthResponses, t \in Completions :
        AuthCalled("SignInWithOTP", req, "", t, SignInWithOTP(client, req, resp))

CallVerify ==
    \E req \in AuthBodies, resp \in AuthResponses, t \in Completions :
        AuthCalled("Verify", req, "", t, Verify(client, req, resp, t))

CallResetPassword ==
    \E req \in AuthBodies, resp \in AuthResponses, t \in Completions :
        AuthCalled("ResetPassword", req, "", t, ResetPassword(client, req, resp))

CallUpdatePassword ==
    \E req \in AuthBodies, token \in Tokens, resp \in AuthResponses,
       t \in Completions :
        AuthCalled("UpdatePassword", req, token, t,
                   UpdatePassword(client, req, token, resp))

CallRefreshToken ==
    \E req \in AuthBodies, resp \in AuthResponses, t \in Completions :
        AuthCalled("RefreshToken", req, "", t, RefreshToken(client, req, resp, t))

CallGetUser ==
    \E token \in Tokens, resp \in AuthResponses, t \in Completions :
        AuthCalled("GetUser", "", token, t, GetUser(client, token, resp))

CallSignOut ==
    \E token \in Tokens, resp \in AuthResponses, t \in Completions :
        AuthCalled("SignOut", "", token, t, SignOut(client, token, resp))

InitAuth == \E options \in OptionLists : Constructed(options)

NextAuth ==
    \/ CallSignUp
    \/ CallSignInWithPassword
    \/ CallSignInWithOTP
    \/ CallVerify
    \/ CallResetPassword
    \/ CallUpdatePassword
    \/ CallRefreshToken
    \/ CallGetUser
    \/ CallSignOut

SpecAuth == InitAuth /\ [][NextAuth]_vars

----------------------------------------------------------------------------
(* Properties.  `last` is the call that produced the current state, so the  *)
(* builder it names is still exactly as that call left it.                  *)

TerminalOps == {"Get", "First", "Insert", "Update", "Delete", "Count"}

LastBuilder == qb[last.b]
LastIsTerminal == last.op \in TerminalOps
RawMode == LastBuilder.rawQuery # ""
Succeeded == last.req.sent /\ last.resp.kind = "http" /\ last.resp.status < 400
AndValues == IF "and" \in DOMAIN last.req.query THEN last.req.query["and"] ELSE << >>

(* C1: whenever a terminal operation runs on a builder whose raw SQL text   *)
(* is non-empty, the request is a POST to <base>/rest/v1/rpc/execute_sql    *)
(* whose body is {"query": <sqlText>} and which has no query parameter,     *)
(* whatever was configured before and whichever terminal operation ran.     *)
C1_RawSqlRequest ==
    (LastIsTerminal /\ RawMode) =>
        /\ last.req.sent
        /\ last.req.method = "POST"
        /\ last.req.url = client.baseURL \o "/rest/v1/rpc/execute_sql"
        /\ last.req.body.kind = "sqlRequest"
        /\ last.req.body.query = LastBuilder.rawQuery
        /\ DOMAIN last.req.query = {}

C1_Witness ==
    /\ last.op = "Delete"
    /\ LastBuilder.rawQuery = "SELECT 1"
    /\ Len(LastBuilder.filters) > 0
    /\ last.req.method = "POST"

(* C2: Get(dest) in raw-SQL mode, answered with a status below 400 and a    *)
(* well-formed JSON body, decodes the body into dest and returns no error.  *)
C2_RawGetDecodes ==
    ( /\ last.op = "Get"
      /\ RawMode
      /\ last.args[1] = PtrData
      /\ Succeeded
      /\ last.resp.body \in WellFormedBodies )
    => (last.err = NilError /\ dest = last.resp.body)

(* C3: every request issued by a builder obtained from Transaction.Table    *)
(* carries the header Prefer: tx=commit, after any configuration calls and  *)
(* for every terminal operation.                                            *)
C3_TransactionPrefer ==
    (LastIsTerminal /\ hist[last.b].ctor = "Transaction.Table" /\ last.req.sent) =>
        /\ "Prefer" \in DOMAIN last.req.headers
        /\ last.req.headers["Prefer"] = "tx=commit"

(* C4: in normal mode a Where filter added with an alias operator is        *)
(* compiled with the canonical PostgREST keyword (= gives eq, != and <>     *)
(* give neq, > gt, >= gte, < lt, <= lte); any other operator is verbatim.   *)
CanonicalOperator(operator) ==
    CASE operator = "=" -> "eq"
      [] operator \in {"!=", "<>"} -> "neq"
      [] operator = ">" -> "gt"
      [] operator = ">=" -> "gte"
      [] operator = "<" -> "lt"
      [] operator = "<=" -> "lte"
      [] OTHER -> operator

C4_AliasOperatorCompiled ==
    (LastIsTerminal /\ ~RawMode /\ last.req.sent) =>
        \A i \in 1..Len(hist[last.b].filterCalls) :
            LET f == hist[last.b].filterCalls[i]
            IN  f.op = "Where" =>
                    /\ i <= Len(AndValues)
                    /\ AndValues[i] = f.column \o "." \o CanonicalOperator(f.operator)
                                               \o "." \o Sprintv(f.value)

(* C5: in normal mode every filter is one value of the repeated `and`       *)
(* parameter, in the order the filters were added: Where as                 *)
(* <column>.<op>.<value>, OrWhere as or(<column>.<op>.<value>), WhereRaw as *)
(* its text unmodified; there are as many values as filter calls were made. *)
ExpectedAndValue(f) ==
    CASE f.op = "Where" ->
            f.column \o "." \o f.operator \o "." \o Sprintv(f.value)
      [] f.op = "OrWhere" ->
            "or(" \o f.column \o "." \o f.operator \o "." \o Sprintv(f.value) \o ")"
      [] f.op = "WhereRaw" -> f.column

C5_FiltersAsAndValues ==
    (LastIsTerminal /\ ~RawMode /\ last.req.sent) =>
        /\ Len(AndValues) = Len(hist[last.b].filterCalls)
        /\ \A i \in 1..Len(AndValues) :
               AndValues[i] = ExpectedAndValue(hist[last.b].filterCalls[i])

C5_Witness ==
    /\ LastIsTerminal /\ ~RawMode /\ last.req.sent
    /\ AndValues = <<"or(name.eq.bob)", "age.gt.18">>

(* C6: in normal mode the select parameter is absent without columns and    *)
(* joins; the comma-joined columns without joins; the columns followed by   *)
(* one <foreignTable>(all columns) per join in insertion order when both    *)
(* exist; and the star followed by the joins when no column was selected.   *)
EmbeddedResources ==
    [i \in 1..Len(LastBuilder.joins) |->
        LastBuilder.joins[i].foreignTable \o "(" \o "*" \o ")"]

ExpectedSelect ==
    IF Len(LastBuilder.joins) = 0 THEN StringsJoin(LastBuilder.selectFields, ",")
    ELSE IF Len(LastBuilder.selectFields) > 0
         THEN StringsJoin(LastBuilder.selectFields \o EmbeddedResources, ",")
         ELSE StringsJoin(<<"*">> \o EmbeddedResources, ",")

C6_SelectParameter ==
    (LastIsTerminal /\ ~RawMode /\ last.req.sent) =>
        IF Len(LastBuilder.selectFields) = 0 /\ Len(LastBuilder.joins) = 0
        THEN "select" \notin DOMAIN last.req.query
        ELSE /\ "select" \in DOMAIN last.req.query
             /\ last.req.query["select"] = <<ExpectedSelect>>

C6_Witness ==
    /\ LastIsTerminal /\ ~RawMode /\ last.req.sent
    /\ Len(LastBuilder.selectFields) = 0
    /\ Len(LastBuilder.joins) = 2
    /\ LastBuilder.joins[1].foreignTable = "posts"
    /\ LastBuilder.joins[2].foreignTable = "comments"
    /\ "select" \in DOMAIN last.req.query
    /\ last.req.query["select"] = <<"*,posts(" \o "*" \o "),comments(" \o "*" \o ")">>

(* C7: InnerJoin(t, l, f) appends exactly the join record {t, l, eq, f} at  *)
(* the end of the join list and leaves the earlier joins and the headers    *)
(* unchanged; LeftJoin(t, l, f) appends the same record and sets the header *)
(* Prefer to missing=null.                                                  *)
JoinAppended(b, a) ==
    qb'[b].joins = Append(qb[b].joins,
        [foreignTable |-> a[1], localColumn |-> a[2],
         operator |-> "eq", foreignColumn |-> a[3]])

C7_JoinEffects ==
    [][ /\ last'.op = "InnerJoin" =>
              /\ JoinAppended(last'.b, last'.args)
              /\ qb'[last'.b].headers = qb[last'.b].headers
        /\ last'.op = "LeftJoin" =>
              /\ JoinAppended(last'.b, last'.args)
              /\ DOMAIN qb'[last'.b].headers = (DOMAIN qb[last'.b].headers) \cup {"Prefer"}
              /\ qb'[last'.b].headers["Prefer"] = "missing=null"
              /\ \A k \in (DOMAIN qb[last'.b].headers) \ {"Prefer"} :
                     qb'[last'.b].headers[k] = qb[last'.b].headers[k]
      ]_vars

C7_Witness ==
    /\ last.op = "LeftJoin"
    /\ Len(LastBuilder.joins) = 2
    /\ LastBuilder.joins[1].foreignTable = "comments"
    /\ LastBuilder.joins[2] =
           [foreignTable |-> "profiles", localColumn |-> "id",
            operator |-> "eq", foreignColumn |-> "user_id"]
    /\ LastBuilder.headers = [Prefer |-> "missing=null"]

(* C8: Commit always returns no error and Rollback always returns the       *)
(* "not supported" error; neither issues a request nor changes the          *)
(* Transaction, the Client or any builder, however often and in whatever    *)
(* order they are called.                                                   *)
C8_CommitRollbackStub ==
    [][ /\ last'.op = "Commit" => last'.err = NilError
        /\ last'.op = "Rollback" =>
              /\ last'.err.kind # "nil"
              /\ last'.err.text = "rollback not supported in the current Supabase REST API"
        /\ last'.op \in {"Commit", "Rollback"} =>
              /\ last'.attempts = 0
              /\ ~last'.req.sent
              /\ UNCHANGED <<tx, client, qb, dest>>
      ]_vars

C8_Witness ==
    /\ last.op = "Rollback"
    /\ last.err.kind = "unsupported"
    /\ calls >= 3

(* C9: on a builder created by Table and not in raw mode, the first         *)
(* terminal operation issues its documented method and body against         *)
(* <base>/rest/v1/<table>: Get and First GET with no body, Insert POST with *)
(* its argument, Update PATCH with its argument, Delete DELETE with no body.*)
C9_FirstTerminalRequest ==
    ( /\ last.op \in {"Get", "First", "Insert", "Update", "Delete"}
      /\ hist[last.b].execs = 1
      /\ ~RawMode )
    => /\ last.req.sent
       /\ last.req.url = client.baseURL \o "/rest/v1/" \o LastBuilder.tableName
       /\ last.op \in {"Get", "First"} =>
              last.req.method = "GET" /\ last.req.body.kind = "none"
       /\ last.op = "Insert" =>
              last.req.method = "POST" /\ last.req.body = last.args[1]
       /\ last.op = "Update" =>
              last.req.method = "PATCH" /\ last.req.body = last.args[1]
       /\ last.op = "Delete" =>
              last.req.method = "DELETE" /\ last.req.body.kind = "none"

C9_Witness ==
    /\ last.op = "Update"
    /\ hist[last.b].execs = 1
    /\ ~RawMode
    /\ Len(LastBuilder.filters) > 0
    /\ last.req.method = "PATCH"
    /\ last.req.body = PtrData

(* C10: after a successful normal-mode request the response body is decoded *)
(* into the caller's argument exactly when the method issued was GET or     *)
(* POST and the argument is non-nil; Update and Delete never write to a     *)
(* caller-supplied value and return nil on success.                         *)
C10_DecodeOnlyGetPost ==
    [][ ( /\ last'.op \in TerminalOps
          /\ qb'[last'.b].rawQuery = ""
          /\ last'.req.sent /\ last'.resp.kind = "http" /\ last'.resp.status < 400 )
        => LET arg == last'.args[1]
               decoded == last'.unmarshalled /\ last'.target = arg /\ arg.kind = "ptr"
           IN  /\ decoded <=> (last'.req.method \in {"GET", "POST"} /\ arg.kind # "nil")
               /\ (decoded /\ last'.resp.body \in WellFormedBodies) =>
                      (dest' = last'.resp.body /\ last'.err = NilError)
               /\ ~decoded => dest' = dest
               /\ last'.op \in {"Update", "Delete"} =>
                      (dest' = dest /\ ~last'.wrote /\ last'.err = NilError)
      ]_vars

C10_Witness ==
    /\ last.op = "Update"
    /\ ~RawMode
    /\ Succeeded
    /\ last.args[1] = PtrData
    /\ last.req.method = "PATCH"
    /\ ~last.unmarshalled
    /\ dest = ""
    /\ last.err = NilError

(* C11: First(dest) sets the builder's limit to 1, replacing any limit an   *)
(* earlier Limit(n) configured, and then executes exactly as Get(dest) does *)
(* on that builder; the query string compiled in normal mode therefore      *)
(* contains limit=1 whatever limit was configured before.                   *)
C11_FirstLimitOne ==
    last.op = "First" =>
        LET limited == [last.before EXCEPT !.limitValue = 1]
            asGet == Get(client, limited, last.args[1], last.resp)
        IN  /\ LastBuilder.limitValue = 1
            /\ LastBuilder = asGet.q
            /\ last.req = asGet.req
            /\ last.err = asGet.err
            /\ last.wrote = asGet.wrote
            /\ (~RawMode /\ last.req.sent) =>
                   /\ "limit" \in DOMAIN last.req.query
                   /\ last.req.query["limit"] = <<"1">>

C11_Witness ==
    /\ last.op = "First"
    /\ last.before.limitValue = 5
    /\ ~RawMode
    /\ last.req.sent
    /\ last.req.query["limit"] = <<"1">>
    /\ LastBuilder.limitValue = 1

(* what execute returns, by the kind of answer and the mode of the builder *)
ExecuteError ==
    IF last.resp.kind = "error" THEN TransportFailure
    ELSE IF last.resp.status >= 400
    THEN [kind |-> "api", text |-> "API error: " \o last.resp.body]
    ELSE IF last.req.method \notin {"GET", "POST"} THEN NilError
    ELSE IF last.resp.body \notin WellFormedBodies THEN SyntaxError
    ELSE IF RawMode THEN InvalidUnmarshalError
    ELSE NilError

CountSetsPrefer ==
    /\ "Prefer" \in DOMAIN LastBuilder.headers
    /\ LastBuilder.headers["Prefer"] = "count=exact"
    /\ last.req.sent
    /\ "Prefer" \in DOMAIN last.req.headers
    /\ last.req.headers["Prefer"] = "count=exact"

(* C12 as stated: Count() sets header Prefer to count=exact before          *)
(* executing and returns the count 0 for every outcome: (0, nil) whenever   *)
(* the request succeeds, whatever Content-Range or body the server          *)
(* returned, and (0, err) whenever execution fails.                         *)
C12_CountNilOnSuccess ==
    last.op = "Count" =>
        /\ CountSetsPrefer
        /\ last.count = 0
        /\ Succeeded => last.err = NilError
        /\ ~Succeeded => last.err # NilError

(* C12, amended: Count() sets header Prefer to count=exact before executing *)
(* and returns the count 0 for every outcome, together with exactly the     *)
(* error execute returns, whatever the Content-Range: the transport error;  *)
(* the API error for a status of 400 or more; and for a status below 400    *)
(* nil when the method issued is neither GET nor POST, else the result of   *)
(* decoding the body (a syntax error for a body that is not well-formed     *)
(* JSON, an invalid-target error in raw mode, nil otherwise).               *)
C12_CountZeroWithExecuteError ==
    last.op = "Count" =>
        /\ CountSetsPrefer
        /\ last.count = 0
        /\ last.err = ExecuteError

C12_Witness ==
    /\ last.op = "Count"
    /\ Succeeded
    /\ ~RawMode
    /\ last.resp.contentRange = "0-9/42"
    /\ last.count = 0
    /\ last.err = NilError
    /\ last.before.headers = EmptyMap

(* C13: in normal mode the query string contains limit=<n> exactly when the *)
(* configured limit is greater than 0 and offset=<n> exactly when the       *)
(* configured offset is greater than 0; a zero or negative value emits no   *)
(* parameter.                                                               *)
C13_LimitOffsetPositiveOnly ==
    (LastIsTerminal /\ ~RawMode /\ last.req.sent) =>
        /\ "limit" \in DOMAIN last.req.query <=> LastBuilder.limitValue > 0
        /\ LastBuilder.limitValue > 0 =>
               last.req.query["limit"] = <<ToString(LastBuilder.limitValue)>>
        /\ "offset" \in DOMAIN last.req.query <=> LastBuilder.offsetValue > 0
        /\ LastBuilder.offsetValue > 0 =>
               last.req.query["offset"] = <<ToString(LastBuilder.offsetValue)>>

C13_Witness ==
    /\ last.op = "Get"
    /\ ~RawMode
    /\ last.req.sent
    /\ LastBuilder.limitValue = 0
    /\ LastBuilder.offsetValue < 0
    /\ "limit" \notin DOMAIN last.req.query
    /\ "offset" \notin DOMAIN last.req.query

(* C14: for every terminal operation a transport error is returned          *)
(* unchanged and a response with status >= 400 is returned as an error      *)
(* whose text carries the raw response body; in both cases the caller's     *)
(* result value is not written and the request is attempted exactly once.   *)
C14_FailuresPassThrough ==
    [][ ( /\ last'.op \in TerminalOps
          /\ calls' = calls + 1 )
        => /\ last'.resp.kind = "error" =>
                  /\ last'.err = TransportFailure
                  /\ dest' = dest /\ ~last'.wrote
                  /\ last'.attempts = 1
           /\ (last'.resp.kind = "http" /\ last'.resp.status >= 400) =>
                  /\ last'.err.kind = "api"
                  /\ last'.err.text = "API error: " \o last'.resp.body
                  /\ dest' = dest /\ ~last'.wrote
                  /\ last'.attempts = 1
      ]_vars

C14_Witness ==
    /\ last.op = "Insert"
    /\ last.args[1] = PtrData
    /\ last.resp.status = 400
    /\ last.err.text = "API error: {\"message\":\"denied\"}"
    /\ last.attempts = 1
    /\ ~last.wrote
    /\ dest = ""

(* C15: BuildFilterCondition(column, op, value) returns                     *)
(* "<column>=<kw>.<FormatFilterValue(value)>", where kw is eq for eq and =, *)
(* neq for neq, != and <>, gt for gt and >, gte for gte and >=, lt for lt   *)
(* and <, lte for lte and <=, like, ilike, in and is for themselves, and    *)
(* the operator verbatim for anything else.                                 *)
C15_BuildFilterCondition ==
    util.fn = "BuildFilterCondition" =>
        util.out = util.column \o "=" \o CanonicalOperator(util.operator)
                       \o "." \o FormatFilterValue(util.value)

C15_Witness ==
    /\ util.fn = "BuildFilterCondition"
    /\ util.column = "id"
    /\ util.operator = "<>"
    /\ util.value = IntV(5)
    /\ util.out = "id=neq.5"

RECURSIVE CommaJoined(_)
CommaJoined(texts) ==
    IF texts = << >> THEN ""
    ELSE IF Len(texts) = 1 THEN texts[1]
    ELSE texts[1] \o "," \o CommaJoined(Tail(texts))

(* the encoding the claim lists, kind by kind *)
RECURSIVE ListedEncoding(_)
ListedEncoding(value) ==
    CASE value.kind = "string" -> "\"" \o value.s \o "\""
      [] value.kind = "bool" -> IF value.b THEN "true" ELSE "false"
      [] value.kind = "int" -> ToString(value.i)
      [] value.kind = "uint" -> ToString(value.u)
      [] value.kind = "slice" ->
            "{" \o CommaJoined([i \in 1..Len(value.items) |->
                                   ListedEncoding(value.items[i])]) \o "}"

(* C16: FormatFilterValue encodes a string s as "s" in double quotes with   *)
(* no escaping, a bool as true or false, a signed or unsigned integer in    *)
(* base 10, a collection of strings as {"a","b"}, any other collection as   *)
(* {..} with each element formatted recursively and joined by commas, and   *)
(* an empty collection as {}.                                               *)
C16_FormatFilterValue ==
    util.fn = "FormatFilterValue" =>
        /\ util.out = ListedEncoding(util.value)
        /\ util.value = SliceV("int", << >>) => util.out = "{}"
        /\ util.value = IntV(0 - 12) => util.out = "-12"
        /\ util.value = SliceV("slice", <<SliceV("int", <<IntV(1), IntV(0 - 2)>>),
                                         SliceV("int", << >>)>>)
               => util.out = "{{1,-2},{}}"

C16_Witness ==
    /\ util.fn = "FormatFilterValue"
    /\ util.value = SliceV("string", <<StrV("a"), StrV("b")>>)
    /\ util.out = "{\"a\",\"b\"}"

(* the headers New sets before it applies any option *)
DefaultHeaders ==
    [k \in {"apikey", "Authorization", "Content-Type"} |->
        CASE k = "apikey" -> ApiKey
          [] k = "Authorization" -> "Bearer " \o ApiKey
          [] k = "Content-Type" -> "application/json"]

(* positions in the argument list of the WithHeaders options that carry k *)
HeaderGivenAt(k) ==
    { i \in 1..Len(opts) : opts[i].kind = "WithHeaders" /\ k \in DOMAIN opts[i].headers }
TimeoutGivenAt == { i \in 1..Len(opts) : opts[i].kind = "WithTimeout" }
Latest(S) == CHOOSE i \in S : \A j \in S : j <= i

(* C17: New(baseURL, apiKey, options...) sets the default headers apikey,   *)
(* Authorization = Bearer <key> and Content-Type = application/json and     *)
(* then applies the options in argument order, so a later option overrides  *)
(* an earlier one and a WithHeaders entry overrides a default of the same   *)
(* name; every header given through WithHeaders is in the client's default  *)
(* header set, and WithTimeout sets the transport timeout.                  *)
C17_NewAppliesOptionsInOrder ==
    /\ client.baseURL = BaseURL
    /\ client.apiKey = ApiKey
    /\ DOMAIN client.headers =
           DOMAIN DefaultHeaders \cup
           UNION { DOMAIN opts[i].headers :
                     i \in { j \in 1..Len(opts) : opts[j].kind = "WithHeaders" } }
    /\ \A k \in DOMAIN client.headers :
           client.headers[k] =
               IF HeaderGivenAt(k) = {} THEN DefaultHeaders[k]
               ELSE opts[Latest(HeaderGivenAt(k))].headers[k]
    /\ TimeoutGivenAt # {} => client.timeout = opts[Latest(TimeoutGivenAt)].timeout

C17_Witness ==
    /\ Len(opts) = 2
    /\ opts[1] = WithHeaders(MapSet(MapSet(EmptyMap, "X-Custom-Header", "second"),
                                    "apikey", "other-key"))
    /\ opts[2] = WithHeaders(MapSet(EmptyMap, "X-Custom-Header", "custom-value"))
    /\ client.headers["X-Custom-Header"] = "custom-value"
    /\ client.headers["apikey"] = "other-key"
    /\ client.headers["Authorization"] = "Bearer " \o ApiKey
    /\ auth.op = "SignUp"
    /\ auth.req.wire["X-Custom-Header"] = "custom-value"
    /\ auth.req.wire["apikey"] = "other-key"

AuthSucceeded == auth.op # "none" /\ auth.err = NilError
ReturnsExpiry == auth.ret.kind = "AuthResponse" /\ ~auth.ret.ExpiresAt.isZero

(* C18 as stated: the auth operations that return an auth-response payload  *)
(* with a computed expiry are exactly those other than OTP sign-in, verify, *)
(* password-reset request, password update and sign-out: sign-up, password  *)
(* sign-in, token refresh and fetch-current-user return such a payload and  *)
(* the five excepted operations do not.                                     *)
C18_PayloadExceptFive ==
    AuthSucceeded =>
        ( ReturnsExpiry <=>
            auth.op \notin {"SignInWithOTP", "Verify", "ResetPassword",
                            "UpdatePassword", "SignOut"} )

(* C18, amended: the auth operations that return an auth-response payload   *)
(* with a computed expiry are exactly sign-up, password sign-in, verify and *)
(* token refresh; fetch-current-user returns a User without an expiry; OTP  *)
(* sign-in, password-reset request, password update and sign-out return     *)
(* only an error; a failed call returns no payload.                         *)
C18_PayloadOfFour ==
    /\ AuthSucceeded =>
        /\ ReturnsExpiry <=>
              auth.op \in {"SignUp", "SignInWithPassword", "Verify", "RefreshToken"}
        /\ auth.ret.kind = "User" <=> auth.op = "GetUser"
        /\ auth.ret = NilPayload <=>
              auth.op \in {"SignInWithOTP", "ResetPassword", "UpdatePassword", "SignOut"}
    /\ auth.err # NilError => auth.ret = NilPayload

C18_Witness ==
    /\ auth.op = "Verify"
    /\ auth.err = NilError
    /\ auth.ret.kind = "AuthResponse"
    /\ auth.ret.ExpiresIn = 3600
    /\ auth.ret.ExpiresAt = Time(now + 3600)

(* C19: whenever an auth operation returns an AuthResponse, its ExpiresAt   *)
(* is the time the call completed plus exactly the ExpiresIn seconds the    *)
(* server returned (3600 seconds later for expires_in = 3600, the current   *)
(* time for expires_in = 0), computed on every call and never taken from    *)
(* the response body.                                                       *)
C19_ExpiresAtFromExpiresIn ==
    auth.ret.kind = "AuthResponse" =>
        /\ auth.ret.ExpiresIn = auth.resp.json.expires_in
        /\ ~auth.ret.ExpiresAt.isZero
        /\ auth.ret.ExpiresAt.sec = now + auth.resp.json.expires_in
        /\ auth.resp.json.expires_in = 3600 => auth.ret.ExpiresAt.sec = now + 3600
        /\ auth.resp.json.expires_in = 0 => auth.ret.ExpiresAt.sec = now

C19_Witness ==
    /\ auth.op = "SignInWithPassword"
    /\ now = 1
    /\ auth.resp.json.expires_in = 3600
    /\ auth.resp.json.expires_at = 7
    /\ auth.ret.ExpiresAt = Time(3601)

(* method and path under <base>/auth/v1 of each auth operation *)
AuthRoute(op) ==
    CASE op = "SignUp" -> <<"POST", "signup">>
      [] op = "SignInWithPassword" -> <<"POST", "token?grant_type=password">>
      [] op = "SignInWithOTP" -> <<"POST", "otp">>
      [] op = "Verify" -> <<"POST", "verify">>
      [] op = "ResetPassword" -> <<"POST", "recover">>
      [] op = "UpdatePassword" -> <<"PUT", "user">>
      [] op = "RefreshToken" -> <<"POST", "token?grant_type=refresh_token">>
      [] op = "GetUser" -> <<"GET", "user">>
      [] op = "SignOut" -> <<"POST", "logout">>

(* C20: each auth operation issues exactly one request with a fixed method  *)
(* and path under <base>/auth/v1; UpdatePassword, GetUser and SignOut send  *)
(* Authorization: Bearer <token> with the caller's token in place of the    *)
(* client default, the other six send the client default.                   *)
C20_AuthRoutes ==
    auth.op # "none" =>
        /\ auth.attempts = 1
        /\ auth.req.sent
        /\ auth.req.method = AuthRoute(auth.op)[1]
        /\ auth.req.url = client.baseURL \o "/auth/v1/" \o AuthRoute(auth.op)[2]
        /\ auth.req.wire["Authorization"] =
               IF auth.op \in {"UpdatePassword", "GetUser", "SignOut"}
               THEN "Bearer " \o auth.token
               ELSE client.headers["Authorization"]

C20_Witness ==
    /\ auth.op = "GetUser"
    /\ auth.token = "test-token"
    /\ client.headers["Authorization"] = "Bearer service-role"
    /\ auth.req.method = "GET"
    /\ auth.req.url = "https://example.supabase.co/auth/v1/user"
    /\ auth.req.wire["Authorization"] = "Bearer test-token"

AuthFailed ==
    \/ auth.resp.kind = "error"
    \/ auth.resp.kind = "http" /\ auth.resp.status >= 400

(* C21: every auth operation returns a non-nil error, and a nil payload for *)
(* the operations that return one, whenever the transport fails or the      *)
(* server answers with status >= 400; the status error carries              *)
(* "auth error: " followed by the raw response body, and no expiry is       *)
(* computed.                                                                *)
C21_AuthFailures ==
    (auth.op # "none" /\ AuthFailed) =>
        /\ auth.err # NilError
        /\ auth.ret = NilPayload
        /\ auth.resp.kind = "error" => auth.err = TransportFailure
        /\ auth.resp.kind = "http" =>
               /\ auth.err.kind = "auth"
               /\ auth.err.text = "auth error: " \o auth.resp.body
        /\ auth.attempts = 1

C21_Witness ==
    /\ auth.op = "RefreshToken"
    /\ auth.resp.status = 400
    /\ auth.err.text = "auth error: {\"msg\":\"invalid\"}"
    /\ auth.ret = NilPayload

(* the Range header execute derives from a range set in normal mode; it is  *)
(* set on the request after the custom headers                              *)
RangeApplies == ~RawMode /\ LastBuilder.rangeValue.set
RangeText ==
    ToString(LastBuilder.rangeValue.start) \o "-" \o ToString(LastBuilder.rangeValue.end)

C23_RangeHeader ==
    /\ last.op = "Range" =>
          LastBuilder.rangeValue =
              [set |-> TRUE, start |-> last.args[1], end |-> last.args[2]]
    /\ (LastIsTerminal /\ last.req.sent /\ RangeApplies) =>
          /\ "Range" \in DOMAIN last.req.headers
          /\ last.req.headers["Range"] = RangeText
          /\ {"range", "Range"} \cap DOMAIN last.req.query = {}
          /\ "limit" \in DOMAIN last.req.query <=> LastBuilder.limitValue > 0
          /\ "offset" \in DOMAIN last.req.query <=> LastBuilder.offsetValue > 0
    /\ (LastIsTerminal /\ last.req.sent /\ ~RangeApplies) =>
          /\ last.req.headers = LastBuilder.headers
          /\ RawMode => last.req.query = EmptyMap

C23_Witness ==
    /\ last.op = "Get"
    /\ ~RawMode
    /\ last.before.rangeValue = [set |-> TRUE, start |-> 10, end |-> 19]
    /\ last.before.limitValue = 5
    /\ last.req.headers["Range"] = "10-19"
    /\ last.req.query["limit"] = <<"5">>

(* the last call left every field of its builder but f as it found it *)
OthersKept(f) ==
    \A g \in (DOMAIN QueryBuilderZero) \ {f} : LastBuilder[g] = last.before[g]

(* the last call appended exactly the element e at the end of the list f *)
AppendedOne(f, e) ==
    /\ Len(LastBuilder[f]) = Len(last.before[f]) + 1
    /\ SubSeq(LastBuilder[f], 1, Len(last.before[f])) = last.before[f]
    /\ LastBuilder[f][Len(LastBuilder[f])] = e

(* C24: Select replaces the whole select list with its arguments; Limit and *)
(* Offset replace the prior value; Where, OrWhere, WhereRaw, Order and Join *)
(* each append exactly one element at the end of their own list and keep    *)
(* the earlier elements; each of these calls touches no other field of the  *)
(* builder and returns the same builder instance.                           *)
C24_ConfigurationFrame ==
    LET a == last.args IN
    /\ last.op = "Select" =>
          LastBuilder.selectFields = a[1] /\ OthersKept("selectFields")
    /\ last.op = "Limit" =>
          LastBuilder.limitValue = a[1] /\ OthersKept("limitValue")
    /\ last.op = "Offset" =>
          LastBuilder.offsetValue = a[1] /\ OthersKept("offsetValue")
    /\ last.op = "Where" =>
          /\ AppendedOne("filters", [column |-> a[1], operator |-> a[2], value |-> a[3],
                                     isOr |-> FALSE, isComplex |-> FALSE])
          /\ OthersKept("filters")
    /\ last.op = "OrWhere" =>
          /\ AppendedOne("filters", [column |-> a[1], operator |-> a[2], value |-> a[3],
                                     isOr |-> TRUE, isComplex |-> FALSE])
          /\ OthersKept("filters")
    /\ last.op = "WhereRaw" =>
          /\ Len(LastBuilder.filters) = Len(last.before.filters) + 1
          /\ SubSeq(LastBuilder.filters, 1, Len(last.before.filters)) = last.before.filters
          /\ LastBuilder.filters[Len(LastBuilder.filters)].column = a[1]
          /\ LastBuilder.filters[Len(LastBuilder.filters)].isComplex
          /\ OthersKept("filters")
    /\ last.op = "Order" =>
          /\ AppendedOne("orderFields", [column |-> a[1], direction |-> a[2]])
          /\ OthersKept("orderFields")
    /\ last.op = "Join" =>
          /\ AppendedOne("joins", [foreignTable |-> a[1], localColumn |-> a[2],
                                   operator |-> a[3], foreignColumn |-> a[4]])
          /\ OthersKept("joins")
    /\ last.op \in {"Select", "Limit", "Offset", "Where", "OrWhere", "WhereRaw",
                    "Order", "Join"} => last.ret = last.b

C24_Witness ==
    /\ last.op = "Select"
    /\ last.args = << << >> >>
    /\ last.before.selectFields = <<"id", "name">>
    /\ Len(last.before.filters) = 1
    /\ LastBuilder.selectFields = << >>
    /\ LastBuilder.filters = last.before.filters

(* the order list as the claim writes it: <col>.<dir>,<col>.<dir>,... *)
OrderText(orderFields) ==
    CommaJoined([i \in 1..Len(orderFields) |->
        orderFields[i].column \o "." \o orderFields[i].direction])

(* C25: when the order list is non-empty the compiled query string has a    *)
(* single order parameter <col>.<dir>,<col>.<dir>,... listing every Order   *)
(* call in insertion order with the direction string forwarded verbatim;    *)
(* when no Order call was made no order parameter is emitted.               *)
C25_OrderParameter ==
    /\ last.op = "Order" =>
          LastBuilder.orderFields[Len(LastBuilder.orderFields)].direction = last.args[2]
    /\ (LastIsTerminal /\ ~RawMode) =>
          /\ last.req.sent
          /\ IF LastBuilder.orderFields # << >>
             THEN /\ "order" \in DOMAIN last.req.query
                  /\ last.req.query["order"] = <<OrderText(LastBuilder.orderFields)>>
             ELSE "order" \notin DOMAIN last.req.query

C25_Witness ==
    /\ last.op = "Get"
    /\ ~RawMode
    /\ Len(LastBuilder.orderFields) = 2
    /\ last.req.query["order"] = <<"id.desc,name.sideways">>

----------------------------------------------------------------------------
(* One Client used for builders and for auth.  A builder call writes qb,    *)
(* hist, dest, calls, last and tx, an auth call writes auth and now, and    *)
(* neither reads what the other writes, so a behaviour that mixes the two   *)
(* families is a shuffle of one of each; the specification keeps the two    *)
(* families in separate behaviours and interleaves the calls on the         *)
(* builders of one Client freely.                                           *)
NextClient ==
    \/ auth.op = "none" /\ Next
    \/ calls = 0 /\ NextAuth

SpecClient == Init /\ [][NextClient]_vars

(* the request a builder compiles when it is executed: execute reads the   *)
(* client and the fields of the builder and nothing else                    *)
Compiled(c, q) == Get(c, q, PtrData, TransportError).req

(* C26: builders created by separate Table calls on the same Client share   *)
(* no mutable state: a configuration or terminal call on one builder        *)
(* changes no field of another builder, hence not the request the other     *)
(* compiles, and no builder or auth call changes the base URL, the API key  *)
(* or the default headers of the Client, under any interleaving of calls on *)
(* distinct builders.                                                       *)
C26_BuildersIndependent ==
    [][ /\ client' = client
        /\ auth' # auth => qb' = qb
        /\ last' # last =>
              \A b \in DOMAIN qb :
                  b # last'.b => qb'[b] = qb[b] ]_vars

C26_Witness ==
    /\ Len(qb) = 2
    /\ last.b = 1
    /\ last.op = "Header"
    /\ qb[1].headers = MapSet(EmptyMap, "X-Trace", "1")
    /\ qb[2].headers = EmptyMap
    /\ "X-Trace" \notin DOMAIN Compiled(client, qb[2]).headers

(* C27: Get, First and Count never set the method of the builder: on a     *)
(* builder that is reused they issue whatever method the most recent        *)
(* Insert, Update, Delete or raw-SQL execution left behind (Insert followed *)
(* by Get issues a second POST whose body is the argument of Get), and only *)
(* on a builder where none of those ran do they issue GET.                  *)
C27_ReadsKeepMethod ==
    last.op \in {"Get", "First", "Count"} =>
        /\ last.req.sent
        /\ last.req.method = IF hist[last.b].methodLeft = "" THEN "GET"
                             ELSE hist[last.b].methodLeft
        /\ LastBuilder.method = last.req.method
        /\ ~RawMode => last.req.method = last.before.method
        /\ (~RawMode /\ last.op # "Count" /\ last.req.method \in {"POST", "PATCH"}) =>
               last.req.body = last.args[1]

C27_Witness ==
    /\ last.op = "Get"
    /\ ~RawMode
    /\ hist[last.b].execs = 2
    /\ hist[last.b].methodLeft = "POST"
    /\ last.req.method = "POST"
    /\ last.args = <<PtrData>>
    /\ last.req.body = PtrData

(* C28: for every builder created by Client.Table or Transaction.Table,     *)
(* after any sequence of configuration and terminal calls the method of the *)
(* builder is one of GET, POST, PATCH, DELETE, so the unsupported HTTP      *)
(* method error of the dispatcher is never returned.                        *)
C28_MethodSupported ==
    /\ \A b \in DOMAIN qb : qb[b].method \in {"GET", "POST", "PATCH", "DELETE"}
    /\ last.err.kind # "unsupported_method"
    /\ LastIsTerminal => last.req.sent

C28_Witness ==
    /\ last.op = "Count"
    /\ hist[last.b].ctor = "Transaction.Table"
    /\ hist[last.b].methodLeft = "DELETE"
    /\ LastBuilder.method = "DELETE"
    /\ last.req.sent
    /\ last.req.method = "DELETE"

====
